---- MODULE Spec2Model ----
(***************************************************************************)
(* Model of generate_placeholder_icons.py: the PNG encoder (png_chunk,     *)
(* make_png) over byte sequences, and the icon-set generator (main) over a *)
(* file system and a console.                                              *)
(*                                                                         *)
(* A byte string is a sequence of numbers in 0..255.  A 32-bit unsigned    *)
(* number is kept as two 16-bit halves [hi, lo], since a CRC-32 does not   *)
(* fit the model checker's integers.                                       *)
(***************************************************************************)
EXTENDS Integers, Sequences, FiniteSets, TLC

VARIABLES
    FILL,        \* module global FILL (line 12)
    ICONS,       \* module global ICONS (lines 37-53)
    width,       \* make_png: argument width of the current call
    height,      \* make_png: argument height of the current call
    fillColor,   \* the fill colour the caller of the encoder asks for
    result,      \* make_png: the bytes returned by the current call, <<>> before
    raw,         \* make_png: the local raw_bytes of the current call
    chunk_calls, \* make_png: its calls of png_chunk, [chunk_type, data, out]
    kept,        \* an earlier call, remembered: <<>> or <<[width, height, out]>>
    pc,          \* main: position in the function
    idx,         \* main: number of the catalog entry of the loop (from 1)
    png,         \* main: the local png
    fs,          \* the file system: path -> content, for the files that exist
    handle,      \* main: path of the file open for writing, "" when none
    opened,      \* the paths opened for writing so far, in order
    console,     \* the lines printed so far
    error        \* the operation that raised, "" while none has

globals == <<FILL, ICONS>>
encVars == <<width, height, fillColor, result, raw, chunk_calls, kept>>
mainVars == <<pc, idx, png, fs, handle, opened, console, error>>
vars == <<globals, encVars, mainVars>>

(***************************************************************************)
(* Bounds of the encoder specification: the largest image encoded.         *)
(***************************************************************************)
MaxWidth == 3
MaxHeight == 3

(***************************************************************************)
(* Bytes and bits.                                                         *)
(***************************************************************************)
RECURSIVE Pow2(_)
Pow2(n) == IF n = 0 THEN 1 ELSE 2 * Pow2(n - 1)

\* n bits of v, least significant first
RECURSIVE BitsLSB(_, _)
BitsLSB(v, n) == IF n = 0 THEN <<>> ELSE <<v % 2>> \o BitsLSB(v \div 2, n - 1)

\* n bits of v, most significant first
RECURSIVE BitsMSB(_, _)
BitsMSB(v, n) == IF n = 0 THEN <<>> ELSE BitsMSB(v \div 2, n - 1) \o <<v % 2>>

\* value of a bit sequence, least significant first
RECURSIVE ValLSB(_)
ValLSB(b) == IF b = <<>> THEN 0 ELSE b[1] + 2 * ValLSB(Tail(b))

\* value of a bit sequence, most significant first
RECURSIVE ValMSB(_)
ValMSB(b) == IF b = <<>> THEN 0 ELSE 2 * ValMSB(SubSeq(b, 1, Len(b) - 1)) + b[Len(b)]

\* bitwise exclusive or of two numbers below 2^n
RECURSIVE Xor(_, _, _)
Xor(a, b, n) ==
    IF n = 0 THEN 0 ELSE ((a + b) % 2) + 2 * Xor(a \div 2, b \div 2, n - 1)

\* F applied to the value of e.  The value is computed once, before F is
\* entered, however often F uses its parameter.
Call(F(_), e) == CHOOSE r \in {F(v) : v \in {e}} : TRUE

\* A loop of n iterations: the body F applied n times to the state s.  The
\* iterations are split in halves, the second half starting from the value
\* of the first, so that the evaluation nests to depth log n instead of n.
RECURSIVE Loop(_, _, _)
Loop(F(_), s, n) ==
    IF n = 0 THEN s
    ELSE IF n = 1 THEN F(s)
    ELSE LET Rest(h) == Loop(F, h, n - (n \div 2))
         IN Call(Rest, Loop(F, s, n \div 2))

(***************************************************************************)
(* struct.pack(">I", n): four bytes, most significant first.               *)
(***************************************************************************)
U32(n) == [hi |-> n \div 65536, lo |-> n % 65536]

pack_I(u) == <<u.hi \div 256, u.hi % 256, u.lo \div 256, u.lo % 256>>

\* struct.pack(">B", b)
pack_B(b) == <<b>>

(***************************************************************************)
(* zlib.crc32: the reflected CRC-32 with polynomial EDB88320, initial      *)
(* value and final exclusive-or FFFFFFFF.                                  *)
(***************************************************************************)
CrcPoly == [hi |-> 60856, lo |-> 33568]   \* EDB8 8320

CrcOnes == [hi |-> 65535, lo |-> 65535]

Xor32(a, b) == [hi |-> Xor(a.hi, b.hi, 16), lo |-> Xor(a.lo, b.lo, 16)]

CrcShift(c) == [hi |-> c.hi \div 2, lo |-> (c.lo \div 2) + 32768 * (c.hi % 2)]

CrcStep(c) == IF c.lo % 2 = 1 THEN Xor32(CrcShift(c), CrcPoly) ELSE CrcShift(c)

CrcByte(c, b) ==
    LET x == Xor32(c, [hi |-> 0, lo |-> b])
    IN CrcStep(CrcStep(CrcStep(CrcStep(CrcStep(CrcStep(CrcStep(CrcStep(x))))))))

crc32(bytes) ==
    LET Crc(s) ==
            LET Body(st) == [c |-> CrcByte(st.c, s[st.k]), k |-> st.k + 1]
            IN Xor32(Loop(Body, [c |-> CrcOnes, k |-> 1], Len(s)).c, CrcOnes)
    IN Call(Crc, bytes)

(***************************************************************************)
(* zlib.compress(data, 9) (line 31): a zlib stream, that is the two header *)
(* bytes 78 DA, one final deflate block and the Adler-32 of the data.      *)
(*                                                                         *)
(* The block is produced as zlib's deflate_slow produces it at level 9:    *)
(* lazy matching over hash chains of the three-byte strings inserted so    *)
(* far, then _tr_flush_block's choice between a stored block and a block   *)
(* with the fixed Huffman codes.  A block with dynamic codes, which zlib   *)
(* prefers when it is shorter, is not modelled: its code tables alone take *)
(* more room than the whole fixed block of the images of this model.       *)
(* Positions in the data count from 0, as in zlib.                         *)
(***************************************************************************)
Deflate == [MIN_MATCH |-> 3, MAX_MATCH |-> 258, TOO_FAR |-> 4096,
            good_length |-> 32, max_lazy |-> 258, nice_length |-> 258,
            max_chain |-> 4096]

Min(a, b) == IF a < b THEN a ELSE b

\* deflate's hash of the three bytes at position p (hash_bits 15, shift 5)
Hash3(w, p) ==
    Xor(Xor((w[p + 1] * 1024) % 32768, w[p + 2] * 32, 15), w[p + 3], 15)

\* the hash chain for the string at p, most recent first: the inserted
\* positions with the same hash.  Position 0 is zlib's NIL and ends a chain.
RECURSIVE SortDown(_)
SortDown(S) ==
    IF S = {} THEN <<>>
    ELSE LET m == CHOOSE x \in S : \A y \in S : y <= x
         IN <<m>> \o SortDown(S \ {m})

HashChain(w, ins, p) ==
    SortDown({q \in ins : q > 0 /\ q < p /\ Hash3(w, q) = Hash3(w, p)})

\* number of bytes, at most cap, on which the strings at a and b agree
CommonLen(w, a, b, cap) ==
    CHOOSE l \in 0..cap :
        /\ \A i \in 0..(l - 1) : w[a + i + 1] = w[b + i + 1]
        /\ l = cap \/ w[a + l + 1] # w[b + l + 1]

\* longest_match: the first candidate of the chain longer than every one
\* before it and than the previous match; the search ends at a match of
\* nice length or when the chain limit is reached
longest_match(w, strstart, chain, prev_length, lookahead) ==
    LET limit == IF prev_length >= Deflate.good_length
                 THEN Deflate.max_chain \div 4 ELSE Deflate.max_chain
        nice == Min(Deflate.nice_length, lookahead)
        cap == Min(Deflate.MAX_MATCH, Len(w) - strstart)
        Body(st) ==
            IF st.stop \/ st.i > Len(chain) \/ st.i > limit THEN st
            ELSE LET Better(len) ==
                         IF len > st.best
                         THEN [best |-> len, start |-> chain[st.i],
                               i |-> st.i + 1, stop |-> len >= nice]
                         ELSE [st EXCEPT !.i = st.i + 1]
                 IN Call(Better, CommonLen(w, chain[st.i], strstart, cap))
        Found(end) == [length |-> Min(end.best, lookahead), start |-> end.start]
    IN Call(Found, Loop(Body, [best |-> prev_length, start |-> -1, i |-> 1,
                               stop |-> FALSE], Len(chain)))

Literal(b) == [t |-> "lit", v |-> b, len |-> 0, dist |-> 0]
Match(l, d) == [t |-> "match", v |-> 0, len |-> l, dist |-> d]

\* the match deflate_slow looks for at strstart, after inserting the string
\* there: the longest one, unless the previous match is already of the
\* greatest length, and none when it is a too distant match of three bytes
find_match(w, st) ==
    LET prev_length == st.match_length
        Search(chain) ==
            IF chain # <<>> /\ prev_length < Deflate.max_lazy
            THEN longest_match(w, st.strstart, chain, prev_length, st.lookahead)
            ELSE [length |-> Deflate.MIN_MATCH - 1, start |-> -1]
        Settle(found) ==
            LET match_start == IF found.start >= 0 THEN found.start
                               ELSE st.match_start
            IN [match_start |-> match_start,
                match_length |->
                    IF /\ found.length = Deflate.MIN_MATCH
                       /\ st.strstart - match_start > Deflate.TOO_FAR
                    THEN Deflate.MIN_MATCH - 1 ELSE found.length]
    IN Call(Settle,
            Call(Search, IF st.lookahead >= Deflate.MIN_MATCH
                         THEN HashChain(w, st.ins, st.strstart) ELSE <<>>))

\* one iteration of deflate_slow's loop over the data w
deflate_slow_step(w, st) ==
    IF st.lookahead = 0 THEN st
    ELSE
    LET ins1 == IF st.lookahead >= Deflate.MIN_MATCH
                THEN st.ins \cup {st.strstart} ELSE st.ins
        prev_length == st.match_length
        prev_match == st.match_start
        Emit(m) ==
            IF prev_length >= Deflate.MIN_MATCH /\ m.match_length <= prev_length
            THEN \* the previous match is at least as good: emit it
                 LET max_insert == st.strstart + st.lookahead - Deflate.MIN_MATCH
                     skipped ==
                         {q \in (st.strstart + 1)..(st.strstart + prev_length - 2) :
                             q <= max_insert}
                 IN [strstart |-> st.strstart + prev_length - 1,
                     lookahead |-> st.lookahead - (prev_length - 1),
                     match_length |-> Deflate.MIN_MATCH - 1,
                     match_start |-> m.match_start,
                     match_available |-> FALSE,
                     ins |-> ins1 \cup skipped,
                     toks |-> Append(st.toks,
                                Match(prev_length, st.strstart - 1 - prev_match))]
            ELSE \* emit the byte of the previous position if it is still
                 \* waiting, and let this position wait for the next
                 [strstart |-> st.strstart + 1,
                  lookahead |-> st.lookahead - 1,
                  match_length |-> m.match_length,
                  match_start |-> m.match_start,
                  match_available |-> TRUE,
                  ins |-> ins1,
                  toks |-> IF st.match_available
                           THEN Append(st.toks, Literal(w[st.strstart]))
                           ELSE st.toks]
    IN Call(Emit, find_match(w, st))

\* deflate_slow run to the end of the data: the literals and matches emitted
deflate_slow(w) ==
    LET Body(st) == deflate_slow_step(w, st)
        Flush(end) == IF end.match_available
                      THEN Append(end.toks, Literal(w[end.strstart]))
                      ELSE end.toks
    IN Call(Flush, Loop(Body, [strstart |-> 0, lookahead |-> Len(w),
                               match_length |-> Deflate.MIN_MATCH - 1,
                               match_start |-> 0, match_available |-> FALSE,
                               ins |-> {}, toks |-> <<>>], Len(w)))

\* the tables of deflate's length and distance codes
base_length == <<3, 4, 5, 6, 7, 8, 9, 10, 11, 13, 15, 17, 19, 23, 27, 31, 35,
                 43, 51, 59, 67, 83, 99, 115, 131, 163, 195, 227, 258>>
extra_lbits == <<0, 0, 0, 0, 0, 0, 0, 0, 1, 1, 1, 1, 2, 2, 2, 2, 3, 3, 3, 3,
                 4, 4, 4, 4, 5, 5, 5, 5, 0>>
base_dist == <<1, 2, 3, 4, 5, 7, 9, 13, 17, 25, 33, 49, 65, 97, 129, 193, 257,
               385, 513, 769, 1025, 1537, 2049, 3073, 4097, 6145, 8193, 12289,
               16385, 24577>>
extra_dbits == <<0, 0, 0, 0, 1, 1, 2, 2, 3, 3, 4, 4, 5, 5, 6, 6, 7, 7, 8, 8,
                 9, 9, 10, 10, 11, 11, 12, 12, 13, 13>>

\* index (from 1) of the last entry of the table that is at most v
CodeOf(table, v) ==
    CHOOSE i \in 1..Len(table) :
        table[i] <= v /\ (i = Len(table) \/ table[i + 1] > v)

\* the fixed Huffman code of a literal/length symbol, first bit first
static_ltree(sym) ==
    IF sym < 144 THEN BitsMSB(48 + sym, 8)
    ELSE IF sym < 256 THEN BitsMSB(400 + (sym - 144), 9)
    ELSE IF sym < 280 THEN BitsMSB(sym - 256, 7)
    ELSE BitsMSB(192 + (sym - 280), 8)

\* the bits of one literal or match under the fixed codes
TokenBits(tok) ==
    IF tok.t = "lit" THEN static_ltree(tok.v)
    ELSE LET lc == CodeOf(base_length, tok.len)
             dc == CodeOf(base_dist, tok.dist)
         IN static_ltree(256 + lc)
            \o BitsLSB(tok.len - base_length[lc], extra_lbits[lc])
            \o BitsMSB(dc - 1, 5)
            \o BitsLSB(tok.dist - base_dist[dc], extra_dbits[dc])

\* bytes of a bit sequence, first bit in the least significant place
PackBits(bits) ==
    LET n == (Len(bits) + 7) \div 8
        Bit(i) == IF i > Len(bits) THEN 0 ELSE bits[i]
    IN [i \in 1..n |-> ValLSB([j \in 1..8 |-> Bit(8 * (i - 1) + j)])]

\* the final block: header bits BFINAL = 1 and BTYPE, then the contents
deflate_block(w) ==
    LET Code(toks) ==
            LET Body(st) == [bits |-> st.bits \o TokenBits(toks[st.i]),
                             i |-> st.i + 1]
            IN Loop(Body, [bits |-> <<>>, i |-> 1], Len(toks)).bits
               \o static_ltree(256)
        Block(coded) ==
            LET static_lenb == (Len(coded) + 3 + 7) \div 8
                stored_len == Len(w)
            IN IF stored_len + 4 <= static_lenb
               THEN <<1>> \o <<stored_len % 256, stored_len \div 256,
                              255 - (stored_len % 256),
                              255 - (stored_len \div 256)>>
                          \o w
               ELSE PackBits(<<1, 1, 0>> \o coded)
    IN Call(Block, Call(Code, deflate_slow(w)))

adler32(w) ==
    LET Body(st) == [a |-> (st.a + w[st.i]) % 65521,
                     b |-> (st.b + st.a + w[st.i]) % 65521,
                     i |-> st.i + 1]
        Sum(end) == [hi |-> end.b, lo |-> end.a]
    IN Call(Sum, Loop(Body, [a |-> 1, b |-> 0, i |-> 1], Len(w)))

zlib_compress(data) ==
    LET Stream(w) == <<120, 218>> \o deflate_block(w) \o pack_I(adler32(w))
    IN Call(Stream, data)

(***************************************************************************)
(* png_chunk (lines 14-18).                                                *)
(***************************************************************************)
\* png_chunk with the checksum taken over the data alone
png_chunk_crc_of_data(chunk_type, payload) ==
    LET Chunk(data) ==
            pack_I(U32(Len(data))) \o chunk_type \o data \o pack_I(crc32(data))
    IN Call(Chunk, payload)

png_chunk(chunk_type, payload) ==
    LET Chunk(data) ==
            LET chunk_len == pack_I(U32(Len(data)))
                to_crc == chunk_type \o data
                crc == crc32(to_crc)
            IN chunk_len \o chunk_type \o data \o pack_I(crc)
    IN Call(Chunk, payload)

(***************************************************************************)
(* make_png (lines 20-34).  The function reads the module global FILL; its *)
(* body is written over the value fill that the global holds at the call.  *)
(***************************************************************************)
signature == <<137, 80, 78, 71, 13, 10, 26, 10>>     \* b"\x89PNG\r\n\x1a\n"

IHDR == <<73, 72, 68, 82>>
IDAT == <<73, 68, 65, 84>>
IEND == <<73, 69, 78, 68>>

\* line 22 with the format "<IIBBBBB": the numbers least significant first
ihdr_data_little_endian(w, h) ==
    <<w % 256, (w \div 256) % 256, (w \div 65536) % 256, w \div 16777216>>
        \o <<h % 256, (h \div 256) % 256, (h \div 65536) % 256, h \div 16777216>>
        \o <<8, 2, 0, 0, 0>>

\* struct.pack(">IIBBBBB", width, height, 8, 2, 0, 0, 0) of line 22
ihdr_data(w, h) ==
    pack_I(U32(w)) \o pack_I(U32(h))
        \o pack_B(8) \o pack_B(2) \o pack_B(0) \o pack_B(0) \o pack_B(0)

ihdr(w, h) == png_chunk(IHDR, ihdr_data(w, h))

\* lines 25-29 with the filter byte appended after the pixels of the row
raw_bytes_filter_last(fill, w, h) ==
    LET Pixel(row) == row \o fill
        Row(rows) == Append(Loop(Pixel, rows, w), 0)
    IN Loop(Row, <<>>, h)

\* lines 25-29 with the colour appended blue first
raw_bytes_bgr(fill, w, h) ==
    LET Pixel(row) == row \o <<fill[3], fill[2], fill[1]>>
        Row(rows) == Loop(Pixel, Append(rows, 0), w)
    IN Loop(Row, <<>>, h)

\* the loops of lines 25-29: per row a filter byte, then fill per pixel
raw_bytes(fill, w, h) ==
    LET Pixel(row) == row \o fill
        Row(rows) == Loop(Pixel, Append(rows, 0), w)
    IN Loop(Row, <<>>, h)

compressed(fill, w, h) == zlib_compress(raw_bytes(fill, w, h))

idat(fill, w, h) == png_chunk(IDAT, compressed(fill, w, h))

iend == png_chunk(IEND, <<>>)

\* line 34 with the image data put before the header
make_png_body_idat_first(fill, w, h) ==
    signature \o idat(fill, w, h) \o ihdr(w, h) \o iend

make_png_body(fill, w, h) ==
    signature \o ihdr(w, h) \o idat(fill, w, h) \o iend

make_png(w, h) == make_png_body(FILL, w, h)

(***************************************************************************)
(* A PNG decoder, written from the PNG, zlib and deflate formats and not   *)
(* from the encoder above.  The properties below read the encoder's output *)
(* through it.                                                             *)
(***************************************************************************)
\* the number held in four bytes, most significant first
unpack_I(b) == [hi |-> b[1] * 256 + b[2], lo |-> b[3] * 256 + b[4]]

IntOf(u) == u.hi * 65536 + u.lo

\* the CRC-32 of a byte sequence as a decoder computes it, one bit of the
\* message at a time through the shift register
CrcOfBits(bytes) ==
    LET Body(st) ==
            LET bit == (bytes[(st.i \div 8) + 1] \div Pow2(st.i % 8)) % 2
                fed == (st.c.lo + bit) % 2
                low == (st.c.lo \div 2) + 32768 * (st.c.hi % 2)
                high == st.c.hi \div 2
            IN [c |-> IF fed = 1
                      THEN [hi |-> Xor(high, 60856, 16), lo |-> Xor(low, 33568, 16)]
                      ELSE [hi |-> high, lo |-> low],
                i |-> st.i + 1]
        end == Loop(Body, [c |-> [hi |-> 65535, lo |-> 65535], i |-> 0],
                    8 * Len(bytes))
    IN [hi |-> 65535 - end.c.hi, lo |-> 65535 - end.c.lo]

\* the Adler-32 of a byte sequence from its definition as two sums
AdlerOfSums(bytes) ==
    LET n == Len(bytes)
        Body(st) == [a |-> (st.a + bytes[st.i]) % 65521,
                     b |-> (st.b + (n - st.i + 1) * bytes[st.i]) % 65521,
                     i |-> st.i + 1]
        end == Loop(Body, [a |-> 1, b |-> n % 65521, i |-> 1], n)
    IN [hi |-> end.b, lo |-> end.a]

\* the chunks of a byte sequence that follows a PNG signature, read by
\* their declared lengths; ok is FALSE when bytes are missing or left over
ReadChunks(bytes) ==
    LET n == Len(bytes)
        Body(st) ==
            IF st.pos > n \/ ~st.ok THEN st
            ELSE IF st.pos + 11 > n THEN [st EXCEPT !.ok = FALSE]
            ELSE LET length == unpack_I(SubSeq(bytes, st.pos, st.pos + 3))
                     len == IntOf(length)
                 IN IF length.hi >= 32768 \/ st.pos + 11 + len > n
                    THEN [st EXCEPT !.ok = FALSE]
                    ELSE [pos |-> st.pos + 12 + len,
                          ok |-> TRUE,
                          chunks |-> Append(st.chunks,
                              [length |-> len,
                               type |-> SubSeq(bytes, st.pos + 4, st.pos + 7),
                               payload |-> SubSeq(bytes, st.pos + 8, st.pos + 7 + len),
                               crc |-> SubSeq(bytes, st.pos + 8 + len,
                                              st.pos + 11 + len)])]
    IN Loop(Body, [pos |-> 9, ok |-> TRUE, chunks |-> <<>>], (n \div 12) + 1)

\* a PNG file read as signature and chunks
ReadPng(bytes) ==
    IF Len(bytes) < 8 \/ SubSeq(bytes, 1, 8) # signature
    THEN [ok |-> FALSE, chunks |-> <<>>]
    ELSE LET r == ReadChunks(bytes) IN [ok |-> r.ok, chunks |-> r.chunks]

\* inflate of a zlib stream holding one final block, stored or with the
\* fixed Huffman codes; ok is FALSE for anything else
Inflate(z) ==
    LET body == SubSeq(z, 3, Len(z) - 4)
        nbits == 8 * Len(body)
        Bit(i) == IF i > nbits THEN 0
                  ELSE (body[((i - 1) \div 8) + 1] \div Pow2((i - 1) % 8)) % 2
        Msb(i, k) == ValMSB([j \in 1..k |-> Bit(i + j - 1)])
        Lsb(i, k) == ValLSB([j \in 1..k |-> Bit(i + j - 1)])
        \* the symbol at bit i and the number of bits of its code
        Symbol(i) ==
            LET v7 == Msb(i, 7)
                v8 == Msb(i, 8)
                v9 == Msb(i, 9)
            IN IF v7 <= 23 THEN [sym |-> 256 + v7, bits |-> 7]
               ELSE IF v8 >= 48 /\ v8 <= 191 THEN [sym |-> v8 - 48, bits |-> 8]
               ELSE IF v8 >= 192 /\ v8 <= 199
                    THEN [sym |-> 280 + (v8 - 192), bits |-> 8]
               ELSE [sym |-> 144 + (v9 - 400), bits |-> 9]
        Body(st) ==
            IF st.done \/ ~st.ok THEN st
            ELSE IF st.pos > nbits THEN [st EXCEPT !.ok = FALSE]
            ELSE LET s == Symbol(st.pos)
                     p1 == st.pos + s.bits
                 IN IF s.sym < 256
                    THEN [st EXCEPT !.pos = p1, !.out = Append(st.out, s.sym)]
                    ELSE IF s.sym = 256
                    THEN [st EXCEPT !.pos = p1, !.done = TRUE]
                    ELSE IF s.sym > 285 THEN [st EXCEPT !.ok = FALSE]
                    ELSE LET lc == s.sym - 256
                             len == base_length[lc] + Lsb(p1, extra_lbits[lc])
                             p2 == p1 + extra_lbits[lc]
                             dc == Msb(p2, 5) + 1
                             p3 == p2 + 5
                         IN IF dc > 30 THEN [st EXCEPT !.ok = FALSE]
                            ELSE LET dist == base_dist[dc] + Lsb(p3, extra_dbits[dc])
                                     have == Len(st.out)
                                 IN IF dist > have THEN [st EXCEPT !.ok = FALSE]
                                    ELSE [st EXCEPT
                                            !.pos = p3 + extra_dbits[dc],
                                            !.out = st.out \o
                                                [j \in 1..len |->
                                                    st.out[have - dist + ((j - 1) % dist) + 1]]]
        fixed == Loop(Body, [pos |-> 4, out |-> <<>>, done |-> FALSE, ok |-> TRUE],
                      nbits)
        stored_len == body[2] + 256 * body[3]
        out == IF Bit(2) = 1 THEN fixed.out ELSE SubSeq(body, 6, Len(body))
        wellformed ==
            /\ Len(z) >= 7
            /\ z[1] % 16 = 8                        \* method: deflate
            /\ (z[1] * 256 + z[2]) % 31 = 0         \* header check bits
            /\ Bit(1) = 1                           \* final block
            /\ Bit(3) = 0                           \* not dynamic, not reserved
            /\ IF Bit(2) = 1
               THEN fixed.ok /\ fixed.done /\ nbits - fixed.pos + 1 < 8
               ELSE /\ Len(body) >= 5
                    /\ body[4] = 255 - body[2] /\ body[5] = 255 - body[3]
                    /\ Len(body) = 5 + stored_len
    IN IF wellformed /\ unpack_I(SubSeq(z, Len(z) - 3, Len(z))) = AdlerOfSums(out)
       THEN [ok |-> TRUE, out |-> out]
       ELSE [ok |-> FALSE, out |-> <<>>]

\* the image a PNG file holds: ok is FALSE unless the file is a signature,
\* an IHDR of 8-bit truecolour without interlace, one IDAT and an IEND,
\* with correct checksums and scanlines of filter type 0
Decode(bytes) ==
    LET r == ReadPng(bytes)
        c == r.chunks
        bad == [ok |-> FALSE, width |-> 0, height |-> 0, pixels |-> <<>>]
    IN IF ~r.ok \/ Len(c) # 3 THEN bad
       ELSE IF \/ <<c[1].type, c[2].type, c[3].type>> # <<IHDR, IDAT, IEND>>
               \/ \E i \in 1..3 :
                     unpack_I(c[i].crc) # CrcOfBits(c[i].type \o c[i].payload)
               \/ c[1].length # 13 \/ c[3].length # 0
               \/ SubSeq(c[1].payload, 9, 13) # <<8, 2, 0, 0, 0>>
       THEN bad
       ELSE LET w == IntOf(unpack_I(SubSeq(c[1].payload, 1, 4)))
                h == IntOf(unpack_I(SubSeq(c[1].payload, 5, 8)))
                z == Inflate(c[2].payload)
                stride == 1 + 3 * w
            IN IF \/ ~z.ok \/ w < 1 \/ h < 1 \/ Len(z.out) # h * stride
                  \/ \E y \in 0..(h - 1) : z.out[y * stride + 1] # 0
               THEN bad
               ELSE [ok |-> TRUE, width |-> w, height |-> h,
                     pixels |-> [k \in 1..(w * h) |->
                        LET at == ((k - 1) \div w) * stride + 1 + 3 * ((k - 1) % w)
                        IN <<z.out[at + 1], z.out[at + 2], z.out[at + 3]>>]]

(***************************************************************************)
(* The module's data.                                                      *)
(***************************************************************************)
FillValue == <<10, 132, 255>>                        \* line 12

Icon(f, w, h) == [filename |-> f, w |-> w, h |-> h]

\* the catalog with the name of line 43 repeated on line 44
IconCatalog_repeated_name ==
    << Icon("Icon-App-20x20@2x.png", 40, 40),
       Icon("Icon-App-20x20@3x.png", 60, 60),
       Icon("Icon-App-29x29@2x.png", 58, 58),
       Icon("Icon-App-29x29@3x.png", 87, 87),
       Icon("Icon-App-40x40@2x.png", 80, 80),
       Icon("Icon-App-40x40@3x.png", 120, 120),
       Icon("Icon-App-40x40@3x.png", 120, 120),
       Icon("Icon-App-60x60@3x.png", 180, 180),
       Icon("Icon-App-20x20@1x.png", 20, 20),
       Icon("Icon-App-29x29@1x.png", 29, 29),
       Icon("Icon-App-40x40@1x.png", 40, 40),
       Icon("Icon-App-76x76@1x.png", 76, 76),
       Icon("Icon-App-76x76@2x.png", 152, 152),
       Icon("Icon-App-83.5x83.5@2x.png", 167, 167),
       Icon("Icon-App-1024x1024.png", 1024, 1024) >>

IconCatalog ==                                        \* lines 37-53
    << Icon("Icon-App-20x20@2x.png", 40, 40),
       Icon("Icon-App-20x20@3x.png", 60, 60),
       Icon("Icon-App-29x29@2x.png", 58, 58),
       Icon("Icon-App-29x29@3x.png", 87, 87),
       Icon("Icon-App-40x40@2x.png", 80, 80),
       Icon("Icon-App-40x40@3x.png", 120, 120),
       Icon("Icon-App-60x60@2x.png", 120, 120),
       Icon("Icon-App-60x60@3x.png", 180, 180),
       Icon("Icon-App-20x20@1x.png", 20, 20),
       Icon("Icon-App-29x29@1x.png", 29, 29),
       Icon("Icon-App-40x40@1x.png", 40, 40),
       Icon("Icon-App-76x76@1x.png", 76, 76),
       Icon("Icon-App-76x76@2x.png", 152, 152),
       Icon("Icon-App-83.5x83.5@2x.png", 167, 167),
       Icon("Icon-App-1024x1024.png", 1024, 1024) >>

\* the directory of the script (line 55)
SCRIPT_DIR == "/Exsplitter/Exsplitter/Assets.xcassets/AppIcon.appiconset"

\* os.path.join(SCRIPT_DIR, filename)
path_join(dir, filename) == dir \o "/" \o filename

\* the files of the script's directory before the run: the catalog's
\* Contents.json and, when the script has run before, an icon of old
ContentsJson == <<123, 125>>
OldIcon == <<137, 80, 78, 71>>

FreshFiles == [p \in {path_join(SCRIPT_DIR, "Contents.json")} |-> ContentsJson]

UsedFiles ==
    [p \in {path_join(SCRIPT_DIR, "Contents.json"),
            path_join(SCRIPT_DIR, "Icon-App-1024x1024.png")} |->
        IF p = path_join(SCRIPT_DIR, "Contents.json") THEN ContentsJson
        ELSE OldIcon]

InitialFiles == {FreshFiles, UsedFiles}

(***************************************************************************)
(* The encoder, called any number of times by a caller that asks for an    *)
(* image of a size and of a colour.  make_png has the two parameters width *)
(* and height and no parameter for the colour.                             *)
(***************************************************************************)
Colors == {FillValue, <<0, 0, 0>>}

EncIdle ==
    /\ width = 1 /\ height = 1 /\ fillColor = FillValue
    /\ result = <<>> /\ raw = <<>> /\ chunk_calls = <<>> /\ kept = <<>>

MainIdle ==
    /\ pc = "for" /\ idx = 0 /\ png = <<>> /\ handle = "" /\ opened = <<>>
    /\ console = <<>> /\ error = ""

Init ==
    /\ FILL = FillValue
    /\ ICONS = IconCatalog
    /\ width \in 1..MaxWidth
    /\ height \in 1..MaxHeight
    /\ fillColor \in Colors
    /\ result = <<>> /\ raw = <<>> /\ chunk_calls = <<>> /\ kept = <<>>
    /\ MainIdle
    /\ fs = FreshFiles

\* the call, were line 29 to take the colour out of FILL (FILL.pop) instead
\* of reading it: the global would be changed by the call
make_png_call_consuming_fill ==
    /\ result = <<>>
    /\ raw' = raw_bytes(FILL, width, height)
    /\ chunk_calls' =
         LET PngChunk(t, d) == [chunk_type |-> t, data |-> d, out |-> png_chunk(t, d)]
         IN << PngChunk(IHDR, ihdr_data(width, height)),
               PngChunk(IDAT, compressed(FILL, width, height)),
               PngChunk(IEND, <<>>) >>
    /\ result' = make_png(width, height)
    /\ FILL' = <<FILL[3], FILL[1], FILL[2]>>
    /\ UNCHANGED <<ICONS, width, height, fillColor, kept, mainVars>>

\* the call make_png(width, height) from entry to return
make_png_call ==
    /\ result = <<>>
    /\ raw' = raw_bytes(FILL, width, height)
    /\ chunk_calls' =
         LET PngChunk(t, d) == [chunk_type |-> t, data |-> d, out |-> png_chunk(t, d)]
         IN << PngChunk(IHDR, ihdr_data(width, height)),
               PngChunk(IDAT, compressed(FILL, width, height)),
               PngChunk(IEND, <<>>) >>
    /\ result' = make_png(width, height)
    /\ UNCHANGED <<globals, width, height, fillColor, kept, mainVars>>

\* the caller goes on to its next call, remembering the last one or not
next_call ==
    /\ result # <<>>
    /\ \E w \in 1..MaxWidth, h \in 1..MaxHeight, c \in Colors :
          /\ width' = w /\ height' = h /\ fillColor' = c
    /\ kept' \in {kept, <<[width |-> width, height |-> height, out |-> result]>>}
    /\ result' = <<>> /\ raw' = <<>> /\ chunk_calls' = <<>>
    /\ UNCHANGED <<globals, mainVars>>

Next == make_png_call \/ next_call

Spec == Init /\ [][Next]_vars

(***************************************************************************)
(* main (lines 57-64), one action per step of the loop body.  Opening a    *)
(* file and writing to it can raise OSError, which nothing catches: the    *)
(* exception leaves the with statement, which closes the file, and ends    *)
(* the run.                                                                *)
(*                                                                         *)
(* Of the bytes make_png returns for an entry of the catalog, main's model *)
(* keeps the first 33: the signature and the IHDR chunk.  The rest of the  *)
(* file, the IDAT and IEND chunks of an image of up to 1024 x 1024 pixels, *)
(* is the subject of the encoder specification above.                      *)
(***************************************************************************)
make_png_head(w, h) == signature \o ihdr(w, h)

\* f"Wrote {filename} ({w}x{h})"
WroteLine(icon) ==
    "Wrote " \o icon.filename \o " (" \o ToString(icon.w) \o "x"
             \o ToString(icon.h) \o ")"

DoneLine == "Done. You can now Clean Build (Shift+Cmd+K) and Archive."

\* what a write that fails may leave in the file: a part of the bytes
PartialWrites(bytes) == {SubSeq(bytes, 1, n) : n \in {0, 8}}

MainInit ==
    /\ FILL = FillValue
    /\ ICONS = IconCatalog
    /\ EncIdle
    /\ MainIdle
    /\ fs \in InitialFiles

\* the loop over ICONS[:-1]: it ends one entry early
main_for_one_short ==
    /\ pc = "for"
    /\ IF idx < Len(ICONS) - 1
       THEN idx' = idx + 1 /\ pc' = "make_png"
       ELSE idx' = idx /\ pc' = "done"
    /\ UNCHANGED <<globals, encVars, png, fs, handle, opened, console, error>>

\* for filename, w, h in ICONS: the next entry, or the end of the loop
main_for ==
    /\ pc = "for"
    /\ IF idx < Len(ICONS)
       THEN idx' = idx + 1 /\ pc' = "make_png"
       ELSE idx' = idx /\ pc' = "done"
    /\ UNCHANGED <<globals, encVars, png, fs, handle, opened, console, error>>

\* path = os.path.join(SCRIPT_DIR, filename); png = make_png(w, h)
main_make_png ==
    /\ pc = "make_png"
    /\ png' = make_png_head(ICONS[idx].w, ICONS[idx].h)
    /\ pc' = "open"
    /\ UNCHANGED <<globals, encVars, idx, fs, handle, opened, console, error>>

\* open(filename, "wb"): the path taken relative to the working directory
main_open_in_cwd ==
    /\ pc = "open"
    /\ LET path == ICONS[idx].filename
       IN /\ handle' = path
          /\ opened' = Append(opened, path)
          /\ fs' = [p \in DOMAIN fs \cup {path} |->
                        IF p = path THEN <<>> ELSE fs[p]]
    /\ pc' = "write"
    /\ UNCHANGED <<globals, encVars, idx, png, console, error>>

\* with open(path, "wb") as f: the file is created, or emptied if it exists
main_open ==
    /\ pc = "open"
    /\ LET path == path_join(SCRIPT_DIR, ICONS[idx].filename)
       IN /\ handle' = path
          /\ opened' = Append(opened, path)
          /\ fs' = [p \in DOMAIN fs \cup {path} |->
                        IF p = path THEN <<>> ELSE fs[p]]
    /\ pc' = "write"
    /\ UNCHANGED <<globals, encVars, idx, png, console, error>>

\* open raises: no file is created or changed
main_open_fails ==
    /\ pc = "open"
    /\ error' = "open"
    /\ pc' = "raised"
    /\ UNCHANGED <<globals, encVars, idx, png, fs, handle, opened, console>>

\* f.write(png)
main_write ==
    /\ pc = "write"
    /\ fs' = [fs EXCEPT ![handle] = png]
    /\ pc' = "close"
    /\ UNCHANGED <<globals, encVars, idx, png, handle, opened, console, error>>

\* f.write raises inside a try whose handler goes on with the next entry
main_write_fails_and_goes_on ==
    /\ pc = "write"
    /\ \E part \in PartialWrites(png) : fs' = [fs EXCEPT ![handle] = part]
    /\ handle' = ""
    /\ error' = "write"
    /\ pc' = "for"
    /\ UNCHANGED <<globals, encVars, idx, png, opened, console>>

\* f.write raises: the file keeps what was written and is closed
main_write_fails ==
    /\ pc = "write"
    /\ \E part \in PartialWrites(png) : fs' = [fs EXCEPT ![handle] = part]
    /\ handle' = ""
    /\ error' = "write"
    /\ pc' = "raised"
    /\ UNCHANGED <<globals, encVars, idx, png, opened, console>>

\* the end of the with statement closes the file
main_close ==
    /\ pc = "close"
    /\ handle' = ""
    /\ pc' = "print"
    /\ UNCHANGED <<globals, encVars, idx, png, fs, opened, console, error>>

\* print(f"Wrote {filename} ({w}x{h})")
main_print ==
    /\ pc = "print"
    /\ console' = Append(console, WroteLine(ICONS[idx]))
    /\ pc' = "for"
    /\ UNCHANGED <<globals, encVars, idx, png, fs, handle, opened, error>>

\* print("Done. ...") and the return of main
main_done ==
    /\ pc = "done"
    /\ console' = Append(console, DoneLine)
    /\ pc' = "returned"
    /\ UNCHANGED <<globals, encVars, idx, png, fs, handle, opened, error>>

MainNext ==
    \/ main_for
    \/ main_make_png
    \/ main_open
    \/ main_open_fails
    \/ main_write
    \/ main_write_fails
    \/ main_close
    \/ main_print
    \/ main_done

MainSpec == MainInit /\ [][MainNext]_vars

(***************************************************************************)
(* Properties of the encoder, checked under Spec.                          *)
(***************************************************************************)
Returned == result # <<>>

\* C1: the bytes make_png returns are the 8-byte PNG signature followed by
\* exactly three chunks, IHDR, IDAT and IEND in this order, with nothing
\* before, between or after them; IEND is last and its payload is empty.
SignatureThenThreeChunks ==
    Returned =>
        LET r == ReadPng(result)
        IN /\ SubSeq(result, 1, 8) = <<137, 80, 78, 71, 13, 10, 26, 10>>
           /\ r.ok
           /\ Len(r.chunks) = 3
           /\ <<r.chunks[1].type, r.chunks[2].type, r.chunks[3].type>>
                = <<IHDR, IDAT, IEND>>
           /\ r.chunks[3].payload = <<>>
           /\ SubSeq(result, Len(result) - 11, Len(result))
                = <<0, 0, 0, 0, 73, 69, 78, 68, 174, 66, 96, 130>>
           /\ Len(result) = 8 + (12 + 13) + (12 + r.chunks[2].length) + 12

SignatureThenThreeChunksWitness ==
    Returned /\ width = 3 /\ height = 2

\* C2: png_chunk returns the payload length in 4 bytes, most significant
\* first, then the 4-byte type, then the payload, then the CRC-32 of type
\* and payload in 4 bytes, most significant first: len(payload) + 12 bytes
\* in all.  This holds of each of the three chunks of a make_png output.
ChunkLayout ==
    /\ \A i \in DOMAIN chunk_calls :
          LET c == chunk_calls[i]
              n == Len(c.data)
          IN /\ Len(c.out) = n + 12
             /\ IntOf(unpack_I(SubSeq(c.out, 1, 4))) = n
             /\ SubSeq(c.out, 5, 8) = c.chunk_type
             /\ SubSeq(c.out, 9, 8 + n) = c.data
             /\ unpack_I(SubSeq(c.out, n + 9, n + 12))
                  = CrcOfBits(c.chunk_type \o c.data)
    /\ Returned =>
          /\ Len(chunk_calls) = 3
          /\ result = signature \o chunk_calls[1].out \o chunk_calls[2].out
                                \o chunk_calls[3].out
          /\ LET r == ReadPng(result)
             IN /\ r.ok /\ Len(r.chunks) = 3
                /\ \A i \in 1..3 :
                      /\ r.chunks[i].type = chunk_calls[i].chunk_type
                      /\ r.chunks[i].payload = chunk_calls[i].data
                      /\ r.chunks[i].length = Len(chunk_calls[i].data)
                      /\ unpack_I(r.chunks[i].crc)
                           = CrcOfBits(r.chunks[i].type \o r.chunks[i].payload)

ChunkLayoutWitness ==
    Returned /\ Len(chunk_calls) = 3 /\ Len(chunk_calls[2].data) > 13
             /\ width = 2 /\ height = 2

\* C3: the IHDR payload is 13 bytes: width and height in 4 bytes each, most
\* significant first, then 8, 2, 0, 0, 0; a decoder reads from it the width
\* and height that were passed in.
HeaderDeclaresSize ==
    Returned =>
        LET p == ReadPng(result).chunks[1].payload
        IN /\ p = chunk_calls[1].data
           /\ Len(p) = 13
           /\ SubSeq(p, 1, 4) = <<0, 0, 0, width>>
           /\ SubSeq(p, 5, 8) = <<0, 0, 0, height>>
           /\ IntOf(unpack_I(SubSeq(p, 1, 4))) = width
           /\ IntOf(unpack_I(SubSeq(p, 5, 8))) = height
           /\ SubSeq(p, 9, 13) = <<8, 2, 0, 0, 0>>
           /\ Decode(result).ok
           /\ Decode(result).width = width
           /\ Decode(result).height = height

HeaderDeclaresSizeWitness ==
    Returned /\ width = 1 /\ height = 3

Deterministic ==
    /\ FILL = FillValue
    /\ ICONS = IconCatalog
    /\ (Returned /\ kept # <<>> /\ kept[1].width = width /\ kept[1].height = height)
          => result = kept[1].out

DeterministicWitness ==
    /\ Returned /\ kept # <<>>
    /\ kept[1].width = width /\ kept[1].height = height
    /\ width = 2 /\ height = 3

\* C9: the buffer handed to deflate has height * (1 + 3 * width) bytes: per
\* row a filter byte 0, then width times the three bytes of FILL, red first;
\* no byte elsewhere is a filter byte.  The IDAT payload is the level-9
\* zlib stream of this buffer and of nothing else.
RawBufferLayout ==
    Returned =>
        LET stride == 1 + 3 * width
            z == chunk_calls[2].data
        IN /\ Len(raw) = height * stride
           /\ \A i \in 1..Len(raw) :
                 raw[i] = IF (i - 1) % stride = 0 THEN 0
                          ELSE <<10, 132, 255>>[((((i - 1) % stride) - 1) % 3) + 1]
           /\ \A r \in 1..(height - 1) :
                 SubSeq(raw, r * stride + 1, (r + 1) * stride) = SubSeq(raw, 1, stride)
           /\ chunk_calls[2].chunk_type = IDAT
           /\ ReadPng(result).chunks[2].payload = z
           /\ SubSeq(z, 1, 2) = <<120, 218>>
           /\ Inflate(z) = [ok |-> TRUE, out |-> raw]
           /\ z = zlib_compress(raw)

RawBufferLayoutWitness ==
    Returned /\ Len(raw) = 30 /\ width = 3 /\ height = 3

(***************************************************************************)
(* Properties of main, checked under MainSpec.                             *)
(***************************************************************************)
PathOf(i) == SCRIPT_DIR \o "/" \o ICONS[i].filename

\* the width and height the IHDR chunk of a file declares
DeclaredSize(bytes) ==
    LET r == ReadPng(bytes)
    IN IF r.ok /\ Len(r.chunks) >= 1 /\ r.chunks[1].type = IHDR
            /\ r.chunks[1].length = 13
            /\ unpack_I(r.chunks[1].crc)
                 = CrcOfBits(r.chunks[1].type \o r.chunks[1].payload)
       THEN <<IntOf(unpack_I(SubSeq(r.chunks[1].payload, 1, 4))),
              IntOf(unpack_I(SubSeq(r.chunks[1].payload, 5, 8)))>>
       ELSE <<0, 0>>

\* entry i has been written: its file holds the encoder's bytes and is closed
Written(i) ==
    /\ PathOf(i) \in DOMAIN fs
    /\ fs[PathOf(i)] = make_png_head(ICONS[i].w, ICONS[i].h)
    /\ handle # PathOf(i)

\* the file of entry i is as it was before the run
Untouched(i) ==
    IF PathOf(i) = SCRIPT_DIR \o "/Icon-App-1024x1024.png" /\ PathOf(i) \in DOMAIN fs
    THEN fs[PathOf(i)] = OldIcon
    ELSE PathOf(i) \notin DOMAIN fs

\* C6: a run in which no write fails ends having written the 15 files of
\* the catalog and no others, each under its catalog name in the script's
\* directory, each holding the encoder's output for the entry's size, so
\* that its IHDR declares the size of the catalog.
FullRunWritesCatalog ==
    /\ pc \in {"for", "open", "write", "close", "print", "done"} =>
          ENABLED (main_for \/ main_open \/ main_write \/ main_close
                     \/ main_print \/ main_done)
    /\ pc = "returned" =>
          /\ error = "" /\ handle = ""
          /\ Len(ICONS) = 15
          /\ opened = [i \in 1..15 |-> SCRIPT_DIR \o "/" \o ICONS[i].filename]
          /\ Cardinality({opened[i] : i \in 1..15}) = 15
          /\ DOMAIN fs = {opened[i] : i \in 1..15}
                            \cup {SCRIPT_DIR \o "/Contents.json"}
          /\ fs[SCRIPT_DIR \o "/Contents.json"] = ContentsJson
          /\ \A i \in 1..15 :
                /\ fs[opened[i]] = make_png_head(ICONS[i].w, ICONS[i].h)
                /\ DeclaredSize(fs[opened[i]]) = <<ICONS[i].w, ICONS[i].h>>
          /\ DeclaredSize(fs[SCRIPT_DIR \o "/Icon-App-1024x1024.png"]) = <<1024, 1024>>
          /\ DeclaredSize(fs[SCRIPT_DIR \o "/Icon-App-20x20@2x.png"]) = <<40, 40>>

FullRunWritesCatalogWitness ==
    pc = "returned" /\ Len(opened) = 15

\* the lines of a run that succeeds
ExpectedConsole ==
    [i \in 1..(Len(ICONS) + 1) |->
        IF i <= Len(ICONS) THEN WroteLine(ICONS[i]) ELSE DoneLine]

\* C7: the entries are processed in catalog order; the line of an entry is
\* printed once, after its file is written and closed and before the next
\* file is opened; the summary is printed once, after the 15 lines, so that
\* a run that succeeds prints 16 lines and never prints the summary while
\* a file of the catalog is unwritten.
ConsoleOrder ==
    LET wrote == IF Len(console) > Len(ICONS) THEN Len(ICONS) ELSE Len(console)
    IN /\ Len(console) <= Len(ICONS) + 1
       /\ \A i \in 1..Len(console) : console[i] = ExpectedConsole[i]
       /\ Len(console) >= 1 => console[1] = "Wrote Icon-App-20x20@2x.png (40x40)"
       /\ \A i \in 1..wrote : opened[i] = PathOf(i) /\ Written(i)
       /\ Len(opened) <= wrote + 1
       /\ pc = "returned" <=> Len(console) = 16
       /\ pc = "returned" => console[16] = DoneLine /\ \A i \in 1..15 : Written(i)

ConsoleOrderWitness ==
    pc = "returned" /\ Len(console) = 16 /\ console[16] = DoneLine

\* C8: when opening or writing the file of entry k fails, the run ends at
\* once: no line for entry k, no later entry encoded, opened or written, no
\* summary, no second attempt at entry k; the files and lines of entries
\* 1..k-1 stay as they were.
FailureEndsRun ==
    /\ pc = "raised" <=> error # ""
    /\ pc = "raised" =>
          LET k == idx
              tried == IF error = "open" THEN k - 1 ELSE k
          IN /\ error \in {"open", "write"}
             /\ ~ ENABLED MainNext
             /\ console = [i \in 1..(k - 1) |-> WroteLine(ICONS[i])]
             /\ opened = [i \in 1..tried |-> PathOf(i)]
             /\ png = make_png_head(ICONS[k].w, ICONS[k].h)
             /\ handle = ""
             /\ \A i \in 1..(k - 1) : Written(i)
             /\ \A i \in (k + 1)..Len(ICONS) : Untouched(i)
             /\ error = "open" => Untouched(k)

FailureEndsRunWitness ==
    pc = "raised" /\ error = "write" /\ idx = 7 /\ Len(console) = 6

\* C10: the 15 file names of the catalog differ from one another, so that a
\* run opens each path once and overwrites no file it wrote earlier, though
\* two pairs of entries have the same size; at every point the files
\* written so far are those of the entries processed so far.
NamesDistinct ==
    /\ Len(ICONS) = 15
    /\ \A i, j \in 1..Len(ICONS) : i # j => ICONS[i].filename # ICONS[j].filename
    /\ <<ICONS[1].w, ICONS[1].h>> = <<ICONS[11].w, ICONS[11].h>>
    /\ <<ICONS[6].w, ICONS[6].h>> = <<ICONS[7].w, ICONS[7].h>>
    /\ \A i, j \in 1..Len(opened) : i # j => opened[i] # opened[j]
    /\ Len(opened) \in {idx - 1, idx}
    /\ opened = [i \in 1..Len(opened) |-> PathOf(i)]
    /\ \A i \in 1..(Len(opened) - 1) : Written(i)
    /\ pc \in {"close", "print", "for", "done", "returned"} =>
          \A i \in 1..Len(opened) : fs[opened[i]] = make_png_head(ICONS[i].w, ICONS[i].h)

NamesDistinctWitness ==
    pc = "print" /\ idx = 11 /\ Len(opened) = 11

====
